---- MODULE Spec2Model ----
(***************************************************************************)
(* Connection lifecycle and reconnection policy of the three session       *)
(* clients of the repository:                                              *)
(*   GeminiLiveClient  (Snuggles_Audio_Node/src/main/llm/geminiLiveClient) *)
(*   useLiveApi + GenAILiveClient (hooks/useLiveApi, lib/GenAILiveClient)  *)
(*   GeminiClient      (Snuggles_Audio_Node/src/main/llm/geminiClient)     *)
(* Each behaviour observes one client; the transport (SDK live session or  *)
(* WebSocket) is the environment and delivers open / error / close / reject*)
(* nondeterministically.  JavaScript is single threaded: every handler runs*)
(* to its next await as one step.  The SDK resolves live.connect() right   *)
(* after it has called onopen, so onopen and the assignment of the session *)
(* handle are one step.                                                    *)
(***************************************************************************)
EXTENDS Integers, Sequences, FiniteSets, Bags, TLC

\* ---- bounds of the model ----
MaxPending == 2     \* transports alive plus reconnect timers pending at the same time
MaxLen == 60        \* largest length of a resampler input, besides the frame of 4096
MaxChunks == 2      \* chunks of audio received by a player
MaxTime == 2        \* last tick of the playback clock
MaxEdits == 1       \* changes of the owner's settings
MaxFrameCount == 10 \* largest value of a frame counter of the voice activity detector

\* ---- program constants ----
maxAttempts == 10
initialDelay == 1000
maxDelay == 30000
backoffMultiplier == 2
jitter == 500
MAX_RECONNECT_ATTEMPTS == 10
BASE_RECONNECT_DELAY_MS == 1000
MAX_RECONNECT_DELAY_MS == 30000
minSpeechFrames == 3
minSilenceFrames == 10

\* Math.random() in thousandths: r stands for the value r / 1000 of [0, 1)
RandomSamples == {0, 999}
\* the draws that matter to a handler: one when it computes no delay
Draws(computes) == IF computes THEN RandomSamples ELSE {0}

\* close codes the transport may report
CloseCodes == {1000, 1001, 1006}

Clients == {"GeminiLiveClient", "useLiveApi", "GeminiClient"}

VARIABLES
  client,       \* the client this behaviour observes
  transports,   \* bag of live transports: phase, errored (onerror delivered),
                \* closing (close() called), held (the client's handle refers to it),
                \* armed (history: one of its callbacks armed a reconnect timer)
  leaked,       \* pending reconnect timers no handle refers to any more
  glc,          \* fields of GeminiLiveClient
  hook,         \* state and refs of useLiveApi
  genai,        \* fields of the hook's GenAILiveClient
  gc,           \* fields of GeminiClient
  owner,        \* history: the owner's last call ("none", "connect", "disconnect")
  chain,        \* history (useLiveApi): reconnects scheduled since the last open or user call
  sinceOpen,    \* history: reconnects scheduled since the last open (stops at max + 1)
  lastBase,     \* history: jitter-free delay of the previous retry of this run of retries
  step,         \* history: what the last handler did
  settings,     \* the owner's settings (session parameters) and, as history, which
                \* of them the owner's connect() calls passed
  vad,          \* fields of the VoiceActivityDetector of GeminiLiveClient
  io,           \* history: what the send or process() call of the last step did
  rs,           \* an AudioResampler, the buffer length it is given and its output length
  streamer,     \* fields of AudioStreamer
  playback,     \* fields of AudioPlaybackService
  now,          \* AudioContext.currentTime, in ticks
  sources,      \* started buffer sources whose 'ended' or 'error' is still to come
  play,         \* history: what the last playback step did
  tray          \* ControlTray: its AudioRecorder and what its recorder effect last saw

\* what the handlers of GeminiLiveClient and GeminiClient never touch
rest == <<rs, streamer, playback, now, sources, play, tray>>

\* what the handlers of useLiveApi that start or stop the streamer never touch
hookRest == <<rs, playback, now, sources, play, tray>>

vars == <<client, transports, leaked, glc, hook, genai, gc, owner, chain, sinceOpen,
          lastBase, step, settings, vad, io, rs, streamer, playback, now, sources, play,
          tray>>

RECURSIVE Pow(_, _)
Pow(b, n) == IF n = 0 THEN 1 ELSE b * Pow(b, n - 1)

Min(a, b) == IF a < b THEN a ELSE b

\* ---- the transport environment ----
NewTransport == [phase |-> "connecting", errored |-> FALSE, closing |-> FALSE, held |-> FALSE,
                 armed |-> FALSE]
Live == BagToSet(transports)
NumLive == BagCardinality(transports)
InFlight == {t \in Live : t.phase = "connecting" /\ ~t.closing}
\* reconnect timers that have not fired and were not cleared
PendingTimers == leaked + (IF glc.reconnectTimer = "pending" THEN 1 ELSE 0)
                        + (IF hook.reconnectTimeout = "pending" THEN 1 ELSE 0)
Pending == NumLive + PendingTimers
NumInFlight == BagCardinality([t \in InFlight |-> transports[t]])
Add(b, t) == b (+) SetToBag({t})
Remove(b, t) == b (-) SetToBag({t})
Replace(b, t, u) == Add(Remove(b, t), u)
\* the handle the client held is dropped or overwritten
Unhold(b) == LET H == {t \in BagToSet(b) : t.held} IN
             IF H = {} THEN b
             ELSE LET h == CHOOSE t \in H : TRUE IN Replace(b, h, [h EXCEPT !.held = FALSE])
\* close() is called on the handle the client holds
CloseHeld(b) == LET H == {t \in BagToSet(b) : t.held} IN
                IF H = {} THEN b
                ELSE LET h == CHOOSE t \in H : TRUE IN Replace(b, h, [h EXCEPT !.closing = TRUE])

\* op: the handler; started: it began a transport connect; emitted: its events in
\* order; sched: how its scheduleReconnect() ended ("none" when not called);
\* attempt, base, delay: the retry it scheduled; code: the close code reported;
\* byTransport: a callback of the transport that closed armed a reconnect timer;
\* before: the attempt counter an onopen found
\* ver: the version of the owner's settings (the config the owner passes to
\* GeminiLiveClient.connect; the agent and user stores of useLiveApi); valid:
\* they pass the validation of connectInternal; called: the version at the
\* owner's last connect() call, captured: at the last one that was neither
\* ignored nor rejected (-1: none)
Settings_Init == [ver |-> 0, valid |-> TRUE, called |-> -1, captured |-> -1]

NoStep == [op |-> "init", started |-> FALSE, emitted |-> <<>>, sched |-> "none",
           attempt |-> 0, base |-> 0, delay |-> 0, code |-> 0, byTransport |-> FALSE,
           before |-> 0, params |-> -1, invalid |-> FALSE]

\* result of a scheduleReconnect() that was not called
NotCalled(g) == [g |-> g, leak |-> 0, emitted |-> <<>>, sched |-> "none",
                 attempt |-> 0, base |-> 0, delay |-> 0]

\* ---------------------------------------------------------------------
\* AudioResampler (lib/audioResampler.ts and main/audio/resampler.ts)
\* JavaScript numbers are IEEE 754 doubles.  A positive double is the record
\* [m, e]: m its 53 significand bits, most significant first (m[1] = 1), e the
\* exponent of m[1]; the value is the sum of m[i] * 2^(e - i + 1).
\* ---------------------------------------------------------------------
SignificandBits == 53

\* a sequence of bits without its leading zeros
StripZeros(b) ==
  IF \A i \in 1 .. Len(b) : b[i] = 0 THEN <<>>
  ELSE LET k == CHOOSE i \in 1 .. Len(b) : b[i] = 1 /\ \A j \in 1 .. i - 1 : b[j] = 0
       IN SubSeq(b, k, Len(b))

\* the bits of the integer n >= 0, most significant first (<<>> for 0)
IntBits(n) == StripZeros([i \in 1 .. 31 |-> (n \div 2 ^ (31 - i)) % 2])

\* the 15 bits of a digit d of base 2^15
DigitBits(d) == [i \in 1 .. 15 |-> (d \div 2 ^ (15 - i)) % 2]

\* the integer a sequence of bits stands for
RECURSIVE BitsToInt(_)
BitsToInt(b) ==
  IF Len(b) = 0 THEN 0
  ELSE IF Len(b) = 1 THEN b[1]
  ELSE LET h == Len(b) \div 2
       IN BitsToInt(SubSeq(b, 1, Len(b) - h)) * 2 ^ h
            + BitsToInt(SubSeq(b, Len(b) - h + 1, Len(b)))

\* b + 1 on bits of fixed width; .carry when it overflowed the width
Increment(b) ==
  IF \A i \in 1 .. Len(b) : b[i] = 1
    THEN [bits |-> [i \in 1 .. Len(b) |-> 0], carry |-> TRUE]
    ELSE LET k == CHOOSE i \in 1 .. Len(b) :
                    b[i] = 0 /\ \A j \in i + 1 .. Len(b) : b[j] = 1
         IN [bits |-> [i \in 1 .. Len(b) |-> IF i < k THEN b[i]
                                              ELSE IF i = k THEN 1 ELSE 0],
             carry |-> FALSE]

\* round to nearest, ties to even: bits (leading bit 1, of exponent e) followed
\* by a value that is nonzero iff sticky, to a double
RoundToDouble(bits, e, sticky) ==
  IF Len(bits) <= SignificandBits
    THEN [m |-> bits \o [i \in 1 .. SignificandBits - Len(bits) |-> 0], e |-> e]
    ELSE LET kept == SubSeq(bits, 1, SignificandBits)
             guard == bits[SignificandBits + 1]
             below == sticky \/ \E i \in SignificandBits + 2 .. Len(bits) : bits[i] = 1
             up == guard = 1 /\ (below \/ kept[SignificandBits] = 1)
             inc == Increment(kept)
         IN IF ~up THEN [m |-> kept, e |-> e]
            ELSE IF inc.carry
              THEN [m |-> <<1>> \o [i \in 1 .. SignificandBits - 1 |-> 0], e |-> e + 1]
              ELSE [m |-> inc.bits, e |-> e]

\* long division in base 2^15: the first k digits of r / s, r < s < 2^16, after
\* the point, as bits; .sticky when the division left a remainder
RECURSIVE QuotientBits(_, _, _)
QuotientBits(r, s, k) ==
  IF k = 0 THEN [bits |-> <<>>, sticky |-> r # 0]
  ELSE LET tail == QuotientBits((r * 32768) % s, s, k - 1)
       IN [bits |-> DigitBits((r * 32768) \div s) \o tail.bits, sticky |-> tail.sticky]

\* the double t / s of two positive integers below 2^16
DivDouble(t, s) ==
  LET int == IntBits(t \div s)
      frac == QuotientBits(t % s, s, 5)
      all == int \o frac.bits
      bits == StripZeros(all)
  IN RoundToDouble(bits, Len(int) - 1 - (Len(all) - Len(bits)), frac.sticky)

\* the bits of n * m, n an integer below 2^16 and m a significand: m is
\* multiplied digit by digit in base 2^15, the last digit first
ProductBits(n, m) ==
  LET padded == [i \in 1 .. 60 - SignificandBits |-> 0] \o m
      d1 == BitsToInt(SubSeq(padded, 1, 15))
      d2 == BitsToInt(SubSeq(padded, 16, 30))
      d3 == BitsToInt(SubSeq(padded, 31, 45))
      d4 == BitsToInt(SubSeq(padded, 46, 60))
      v4 == n * d4
      v3 == n * d3 + v4 \div 32768
      v2 == n * d2 + v3 \div 32768
      v1 == n * d1 + v2 \div 32768
  IN StripZeros(IntBits(v1) \o DigitBits(v2 % 32768) \o DigitBits(v3 % 32768)
                  \o DigitBits(v4 % 32768))

\* the double n * d of an integer n > 0 and a double d
MulDouble(n, d) ==
  LET bits == ProductBits(n, d.m)
  IN RoundToDouble(bits, d.e + Len(bits) - SignificandBits, FALSE)

\* Math.floor of a positive double
FloorDouble(d) == IF d.e < 0 THEN 0 ELSE BitsToInt(SubSeq(d.m, 1, d.e + 1))

\* new AudioResampler(sourceRate, targetRate): this.ratio = targetRate / sourceRate
Resampler(sourceRate, targetRate) ==
  [sourceRate |-> sourceRate, targetRate |-> targetRate,
   ratio |-> DivDouble(targetRate, sourceRate)]

\* the length of the buffer resample(input) / downsample(input) returns for an
\* input of len samples: Math.floor(input.length * this.ratio), or the input
\* itself when the rates are equal
ResampleLength(r, len) ==
  IF r.sourceRate = r.targetRate THEN len
  ELSE IF len = 0 THEN 0
  ELSE FloorDouble(MulDouble(len, r.ratio))

\* AudioResamplers.UPSTREAM
UPSTREAM == Resampler(48000, 16000)

\* variant: prepareForGemini without the resampling step
PrepareWithoutResampling(len, r) == len

\* AudioResampler.prepareForGemini: the number of PCM16 samples of the payload
\* (float32ToInt16 and the base64 encoding keep the number of samples)
PrepareForGeminiSamples(len, r) == ResampleLength(r, len)

\* ---------------------------------------------------------------------
\* VoiceActivityDetector (main/audio/vad.ts), as GeminiLiveClient holds it
\* A frame is its length and the outcome of the two comparisons process()
\* makes: rms > rmsThreshold and zcr > zcrThreshold.
\* ---------------------------------------------------------------------
FrameLengths == {0, 4096}
\* an empty frame has rms NaN and zcr NaN: both comparisons are false
Frames == {f \in [len : FrameLengths, rms : BOOLEAN, zcr : BOOLEAN] :
             f.len = 0 => (~f.rms /\ ~f.zcr)}

VAD_Init == [speechFrameCount |-> 0, silenceFrameCount |-> 0, isSpeaking |-> FALSE,
             isGeminiSpeaking |-> FALSE]

\* reset()
VAD_Reset(v) == [v EXCEPT !.speechFrameCount = 0, !.silenceFrameCount = 0,
                          !.isSpeaking = FALSE]

\* hasVoiceActivity of process()
VAD_HasVoiceActivity(f) == f.rms /\ f.zcr

\* variant: speech triggered only above minSpeechFrames
VAD_ProcessLate(v, f) ==
  IF v.isGeminiSpeaking THEN [v |-> VAD_Reset(v), ret |-> FALSE]
  ELSE IF VAD_HasVoiceActivity(f) THEN
    LET n == v.speechFrameCount + 1
        v1 == [v EXCEPT !.speechFrameCount = n, !.silenceFrameCount = 0,
                        !.isSpeaking = IF n > minSpeechFrames THEN TRUE ELSE v.isSpeaking]
    IN [v |-> v1, ret |-> v1.isSpeaking]
  ELSE
    LET n == v.silenceFrameCount + 1
        v1 == [v EXCEPT !.silenceFrameCount = n, !.speechFrameCount = 0,
                        !.isSpeaking = IF n >= minSilenceFrames THEN FALSE ELSE v.isSpeaking]
    IN [v |-> v1, ret |-> v1.isSpeaking]

\* variant: process() without the turn-taking override
VAD_ProcessIgnoringGemini(v, f) ==
  IF VAD_HasVoiceActivity(f) THEN
    LET n == v.speechFrameCount + 1
        v1 == [v EXCEPT !.speechFrameCount = n, !.silenceFrameCount = 0,
                        !.isSpeaking = IF n >= minSpeechFrames THEN TRUE ELSE v.isSpeaking]
    IN [v |-> v1, ret |-> v1.isSpeaking]
  ELSE
    LET n == v.silenceFrameCount + 1
        v1 == [v EXCEPT !.silenceFrameCount = n, !.speechFrameCount = 0,
                        !.isSpeaking = IF n >= minSilenceFrames THEN FALSE ELSE v.isSpeaking]
    IN [v |-> v1, ret |-> v1.isSpeaking]

\* process(audioData): the detector afterwards and the value returned
VAD_Process(v, f) ==
  IF v.isGeminiSpeaking THEN [v |-> VAD_Reset(v), ret |-> FALSE]
  ELSE IF VAD_HasVoiceActivity(f) THEN
    LET n == v.speechFrameCount + 1
        v1 == [v EXCEPT !.speechFrameCount = n, !.silenceFrameCount = 0,
                        !.isSpeaking = IF n >= minSpeechFrames THEN TRUE ELSE v.isSpeaking]
    IN [v |-> v1, ret |-> v1.isSpeaking]
  ELSE
    LET n == v.silenceFrameCount + 1
        v1 == [v EXCEPT !.silenceFrameCount = n, !.speechFrameCount = 0,
                        !.isSpeaking = IF n >= minSilenceFrames THEN FALSE ELSE v.isSpeaking]
    IN [v |-> v1, ret |-> v1.isSpeaking]

\* setGeminiSpeaking(speaking)
VAD_SetGeminiSpeaking(v, speaking) ==
  IF speaking = v.isGeminiSpeaking THEN v
  ELSE LET v1 == [v EXCEPT !.isGeminiSpeaking = speaking]
       IN IF speaking THEN VAD_Reset(v1) ELSE v1

\* the detector is as reset() leaves it
VAD_IsReset(v) == v.speechFrameCount = 0 /\ v.silenceFrameCount = 0 /\ ~v.isSpeaking

\* op: the call; result: "thrown" (an error to the caller), "dropped" (returned
\* without sending and without an error), "skipped" (the gate held the frame
\* back), "sent", "failed" (the transport refused the write); payloads, samples:
\* what was written to the transport; processed: process() ran, ret its value;
\* len, active: the length and the voice activity of the frame given; frames:
\* the activity of the frames process() has seen with the remote peer silent
\* since the detector was last reset, up to the first inactive one or the
\* minSpeechFrames-th; more: process() has seen further frames after those;
\* passing: isSpeaking before the call; audio, turnComplete: what the inbound
\* message handled carried
NoIO == [op |-> "none", result |-> "none", payloads |-> 0, samples |-> 0,
         processed |-> FALSE, ret |-> FALSE, len |-> 0, active |-> FALSE,
         frames |-> <<>>, more |-> FALSE, passing |-> FALSE,
         audio |-> "none", turnComplete |-> FALSE]

\* the history of frames after process() saw f in detector v
\* no send and no process() call in this step
NoCall == [NoIO EXCEPT !.frames = io.frames, !.more = io.more]

FramesFull(fs) == Len(fs) >= minSpeechFrames \/ (fs # <<>> /\ ~fs[Len(fs)])

FramesAfter(v, f) ==
  IF v.isGeminiSpeaking THEN <<>>
  ELSE IF FramesFull(io.frames) THEN io.frames
  ELSE Append(io.frames, VAD_HasVoiceActivity(f))

MoreAfter(v) == ~v.isGeminiSpeaking /\ FramesFull(io.frames)

\* ---------------------------------------------------------------------
\* GeminiLiveClient
\* ---------------------------------------------------------------------
\* session: "null", "live" (the handle of the held transport) or "closed" (the
\* handle of a transport that has closed; onclose does not clear it)
GLC_Init == [isConnected |-> FALSE, reconnectAttempts |-> 0, reconnectTimer |-> "null",
             shouldReconnect |-> TRUE, session |-> "null", lastConfig |-> -1]

\* variant: the exponential term without the Math.min cap
GLC_BaseDelayUncapped(n) == initialDelay * Pow(backoffMultiplier, n - 1)

\* the jitter-free part of the delay of retry n
GLC_BaseDelay(n) == Min(initialDelay * Pow(backoffMultiplier, n - 1), maxDelay)

\* (Math.random() - 0.5) * RECONNECT_CONFIG.jitter
GLC_Jitter(r) == ((r - 500) * jitter) \div 1000

\* variant: the limit compared with > instead of >=
GLC_ScheduleReconnectOffByOne(g, r) ==
  IF ~g.shouldReconnect THEN
    [NotCalled(g) EXCEPT !.sched = "disabled"]
  ELSE IF g.reconnectAttempts > maxAttempts THEN
    [NotCalled(g) EXCEPT !.sched = "max", !.emitted = <<"error">>]
  ELSE
    LET n == g.reconnectAttempts + 1
        d == GLC_BaseDelay(n) + GLC_Jitter(r)
    IN [g |-> [g EXCEPT !.reconnectAttempts = n, !.reconnectTimer = "pending"],
        leak |-> IF g.reconnectTimer = "pending" THEN 1 ELSE 0,
        emitted |-> <<"reconnecting">>, sched |-> "armed",
        attempt |-> n, base |-> GLC_BaseDelay(n), delay |-> d]

\* scheduleReconnect(), Math.random() returning r / 1000
GLC_ScheduleReconnect(g, r) ==
  IF ~g.shouldReconnect THEN
    [NotCalled(g) EXCEPT !.sched = "disabled"]
  ELSE IF g.reconnectAttempts >= maxAttempts THEN
    [NotCalled(g) EXCEPT !.sched = "max", !.emitted = <<"error">>]
  ELSE
    LET n == g.reconnectAttempts + 1
        d == GLC_BaseDelay(n) + GLC_Jitter(r)
    IN [g |-> [g EXCEPT !.reconnectAttempts = n, !.reconnectTimer = "pending"],
        leak |-> IF g.reconnectTimer = "pending" THEN 1 ELSE 0,
        emitted |-> <<"reconnecting">>, sched |-> "armed",
        attempt |-> n, base |-> GLC_BaseDelay(n), delay |-> d]

\* connect() up to its await: .started says whether genAI.live.connect was called
GLC_ConnectCall(g, config) ==
  IF g.isConnected THEN [g |-> g, started |-> FALSE]
  ELSE [g |-> [g EXCEPT !.lastConfig = config, !.shouldReconnect = TRUE], started |-> TRUE]

\* variant: the reconnect timer connects with the owner's present settings
GLC_CurrentConfig(g) == settings.ver

\* this.lastConfig, the argument of the reconnect timer's connect()
GLC_ReconnectConfig(g) == g.lastConfig

\* the owner calls connect(config)
GLC_Connect ==
  /\ client = "GeminiLiveClient"
  /\ LET c == GLC_ConnectCall(glc, settings.ver) IN
     /\ c.started => Pending < MaxPending
     /\ glc' = c.g
     /\ transports' = IF c.started THEN Add(transports, NewTransport) ELSE transports
     /\ step' = [NoStep EXCEPT !.op = "connect", !.started = c.started,
                               !.params = IF c.started THEN settings.ver ELSE -1]
     /\ settings' = [settings EXCEPT !.called = settings.ver,
                                     !.captured = IF c.started THEN settings.ver ELSE @]
  /\ owner' = "connect"
  /\ io' = NoCall
  /\ UNCHANGED <<rest, vad, client, leaked, hook, genai, gc, chain, sinceOpen, lastBase>>

\* a reconnect timer fires: connect(lastConfig)
GLC_TimerFire ==
  /\ client = "GeminiLiveClient"
  /\ \E which \in {"handle", "leaked"} :
       /\ which = "handle" => glc.reconnectTimer = "pending"
       /\ which = "leaked" => leaked > 0
       /\ LET g0 == IF which = "handle" THEN [glc EXCEPT !.reconnectTimer = "fired"] ELSE glc
              c == GLC_ConnectCall(g0, GLC_ReconnectConfig(g0))
          IN /\ glc' = c.g
             /\ transports' = IF c.started THEN Add(transports, NewTransport) ELSE transports
             /\ step' = [NoStep EXCEPT !.op = "timer", !.started = c.started,
                                       !.params = IF c.started THEN c.g.lastConfig ELSE -1]
       /\ leaked' = IF which = "leaked" THEN leaked - 1 ELSE leaked
  /\ io' = NoCall
  /\ UNCHANGED <<rest, settings, vad, client, hook, genai, gc, owner, chain, sinceOpen, lastBase>>

\* variant: onopen without this.reconnectAttempts = 0
GLC_OnOpenKeepingAttempts(t) ==
  /\ client = "GeminiLiveClient"
  /\ t.phase = "connecting" /\ ~t.errored /\ ~t.closing
  /\ glc' = [glc EXCEPT !.isConnected = TRUE, !.session = "live"]
  /\ transports' = Add(Unhold(Remove(transports, t)),
                       [t EXCEPT !.phase = "open", !.held = TRUE])
  /\ step' = [NoStep EXCEPT !.op = "onopen", !.emitted = <<"connected">>,
                            !.before = glc.reconnectAttempts]
  /\ sinceOpen' = 0
  /\ lastBase' = 0
  /\ io' = NoCall
  /\ UNCHANGED <<rest, settings, vad, client, leaked, hook, genai, gc, owner, chain>>

\* callbacks.onopen, then the awaiting connect() stores the session
GLC_OnOpen(t) ==
  /\ client = "GeminiLiveClient"
  /\ t.phase = "connecting" /\ ~t.errored /\ ~t.closing
  /\ glc' = [glc EXCEPT !.isConnected = TRUE, !.reconnectAttempts = 0, !.session = "live"]
  /\ transports' = Add(Unhold(Remove(transports, t)),
                       [t EXCEPT !.phase = "open", !.held = TRUE])
  /\ step' = [NoStep EXCEPT !.op = "onopen", !.emitted = <<"connected">>,
                            !.before = glc.reconnectAttempts]
  /\ sinceOpen' = 0
  /\ lastBase' = 0
  /\ io' = NoCall
  /\ UNCHANGED <<rest, settings, vad, client, leaked, hook, genai, gc, owner, chain>>

\* what a handler that may call scheduleReconnect leaves behind
GLC_Scheduled(s, op, code, first, t) ==
  /\ (s.sched = "armed" /\ op = "onerror") => Pending < MaxPending
  /\ glc' = s.g
  /\ leaked' = leaked + s.leak
  /\ sinceOpen' = IF s.sched = "armed" THEN Min(sinceOpen + 1, maxAttempts + 1) ELSE sinceOpen
  /\ lastBase' = IF s.sched = "armed" THEN s.base ELSE lastBase
  /\ transports' = IF op = "onerror"
                     THEN Replace(transports, t, [t EXCEPT !.errored = TRUE,
                                                           !.armed = s.sched = "armed"])
                     ELSE Remove(transports, t)
  /\ step' = [NoStep EXCEPT !.op = op, !.emitted = first \o s.emitted, !.sched = s.sched,
                            !.attempt = s.attempt, !.base = s.base, !.delay = s.delay,
                            !.code = code,
                            !.byTransport = op = "onclose" /\ (t.armed \/ s.sched = "armed")]

\* callbacks.onerror
GLC_OnError(t) ==
  /\ client = "GeminiLiveClient"
  /\ ~t.errored
  /\ \E r \in Draws(GLC_ScheduleReconnect(glc, 0).sched = "armed") :
       GLC_Scheduled(IF glc.shouldReconnect THEN GLC_ScheduleReconnect(glc, r)
                                            ELSE NotCalled(glc),
                     "onerror", 0, <<"error">>, t)
  /\ io' = NoCall
  /\ UNCHANGED <<rest, settings, vad, client, hook, genai, gc, owner, chain>>

\* callbacks.onclose
GLC_OnClose(t, code) ==
  /\ client = "GeminiLiveClient"
  /\ t.closing => code = 1000
  /\ \E r \in Draws(code # 1000 /\ code # 1001
                      /\ GLC_ScheduleReconnect(glc, 0).sched = "armed") :
       LET g0 == [glc EXCEPT !.isConnected = FALSE,
                             !.session = IF t.held THEN "closed" ELSE glc.session]
       IN GLC_Scheduled(IF g0.shouldReconnect /\ code # 1000 /\ code # 1001
                          THEN GLC_ScheduleReconnect(g0, r) ELSE NotCalled(g0),
                        "onclose", code, <<"disconnected">>, t)
  /\ io' = NoCall
  /\ UNCHANGED <<rest, settings, vad, client, hook, genai, gc, owner, chain>>

\* genAI.live.connect rejects: the catch block of connect()
GLC_Reject(t) ==
  /\ client = "GeminiLiveClient"
  /\ t.phase = "connecting"
  /\ \E r \in Draws(GLC_ScheduleReconnect(glc, 0).sched = "armed") :
       GLC_Scheduled(IF glc.shouldReconnect THEN GLC_ScheduleReconnect(glc, r)
                                            ELSE NotCalled(glc),
                     "reject", 0, <<"error">>, t)
  /\ io' = NoCall
  /\ UNCHANGED <<rest, settings, vad, client, hook, genai, gc, owner, chain>>

\* the owner calls disconnect()
GLC_Disconnect ==
  /\ client = "GeminiLiveClient"
  /\ glc' = [glc EXCEPT !.shouldReconnect = FALSE, !.reconnectTimer = "null",
                        !.session = "null", !.isConnected = FALSE]
  /\ transports' = Unhold(CloseHeld(transports))
  /\ vad' = VAD_Reset(vad)
  /\ io' = NoIO
  /\ step' = [NoStep EXCEPT !.op = "disconnect", !.emitted = <<"disconnected">>]
  /\ owner' = "disconnect"
  /\ UNCHANGED <<rest, settings, client, leaked, hook, genai, gc, chain, sinceOpen, lastBase>>

\* the owner's settings change: the next connect(config) gets another config
GLC_Edit ==
  /\ client = "GeminiLiveClient"
  /\ settings.ver < MaxEdits
  /\ settings' = [settings EXCEPT !.ver = @ + 1]
  /\ step' = [NoStep EXCEPT !.op = "edit"]
  /\ io' = NoCall
  /\ UNCHANGED <<rest, vad, client, transports, leaked, glc, hook, genai, gc, owner, chain,
                 sinceOpen, lastBase>>

GLC_Next ==
  \/ GLC_Connect
  \/ GLC_Disconnect
  \/ GLC_TimerFire
  \/ \E t \in Live : GLC_OnOpen(t)
  \/ \E t \in Live : GLC_OnError(t)
  \/ \E t \in Live : \E code \in CloseCodes : GLC_OnClose(t, code)
  \/ \E t \in Live : GLC_Reject(t)

\* ---------------------------------------------------------------------
\* Playback: AudioStreamer (lib/AudioStreamer.ts) and AudioPlaybackService
\* (renderer/services/audioPlaybackService.ts)
\* ---------------------------------------------------------------------
\* what the playback classes never touch
connection == <<client, transports, leaked, glc, hook, genai, gc, owner, chain, sinceOpen,
                lastBase, step, settings, vad, io, rs, tray>>

Players == {"AudioStreamer", "AudioPlaybackService"}

\* who drives an AudioStreamer: the class on its own, and useLiveApi
StreamerOwners == {"AudioStreamer", "useLiveApi"}

\* the lengths of a chunk of audio, in ticks
Durations == {1, 2}

\* context: "null" or "set"; gainNode: the gain node (and the worklet node) is
\* set; initPending: init() awaits audioWorklet.addModule; stopPending: stop()
\* awaits context.close(); audioQueue: chunks [id, dur]
AS_Init == [context |-> "null", gainNode |-> FALSE, initPending |-> FALSE,
            stopPending |-> FALSE, startTime |-> 0, audioQueue |-> <<>>,
            isPlaying |-> FALSE]

APS_Init == [audioContext |-> "null", nextStartTime |-> 0, isActive |-> FALSE]

\* a started buffer source: the chunk it plays and its interval
NoSource == [id |-> 0, start |-> 0, end |-> 0]

\* op: the call or event; sched: the source the step started (NoSource: none);
\* failed: chunks whose try block threw; dropped: chunks taken from the queue
\* and never handed to the try block; last: the source started last on this
\* context; next: the number of chunks received so far
NoPlay == [op |-> "none", sched |-> NoSource, failed |-> 0, dropped |-> 0,
           last |-> NoSource, next |-> 0]

\* what a step that starts no source leaves in play
Played(op) == [NoPlay EXCEPT !.op = op, !.last = play.last, !.next = play.next]

\* variant: the chunk starts at the end of the previous one, whatever the time
AS_ScheduleAtStartTime(startTime, currentTime) == startTime

\* Math.max(this.startTime, this.context.currentTime)
AS_ScheduleTime(startTime, currentTime) ==
  IF startTime > currentTime THEN startTime ELSE currentTime

\* playQueue(): st.s is the streamer, st.sources the pending sources; the try
\* block throws for the first k chunks it is given (the catch calls playQueue
\* again)
RECURSIVE AS_PlayQueue(_, _)
AS_PlayQueue(st, k) ==
  IF st.s.audioQueue = <<>> THEN [st EXCEPT !.s.isPlaying = FALSE]
  ELSE LET c == Head(st.s.audioQueue)
           s1 == [st.s EXCEPT !.isPlaying = TRUE, !.audioQueue = Tail(@)]
       IN IF s1.context = "null" \/ ~s1.gainNode
            THEN [st EXCEPT !.s = s1, !.dropped = @ + 1]
          ELSE IF k > 0
            THEN AS_PlayQueue([st EXCEPT !.s = s1, !.failed = @ + 1], k - 1)
          ELSE LET t == AS_ScheduleTime(s1.startTime, now)
                   src == [id |-> c.id, start |-> t, end |-> t + c.dur]
               IN [st EXCEPT !.s = [s1 EXCEPT !.startTime = t + c.dur],
                             !.sources = @ \cup {src}, !.sched = src]

\* a handler of the streamer that ends in playQueue(), from streamer s0 and
\* pending sources src0, n chunks received so far
AS_Played(op, s0, src0, k, n) ==
  LET st == AS_PlayQueue([s |-> s0, sources |-> src0, sched |-> NoSource, failed |-> 0,
                          dropped |-> 0], k)
  IN /\ streamer' = st.s
     /\ sources' = st.sources
     /\ play' = [Played(op) EXCEPT !.sched = st.sched, !.failed = st.failed,
                                   !.dropped = st.dropped, !.next = n,
                                   !.last = IF st.sched = NoSource THEN play.last
                                            ELSE st.sched]

\* init() run to its end: nothing when there is a context; else a new context
\* and, when addModule resolves (ok), the nodes and startTime
AS_Initialized(s, ok) ==
  IF s.context = "set" THEN s
  ELSE IF ok THEN [s EXCEPT !.context = "set", !.gainNode = TRUE, !.startTime = now]
  ELSE [s EXCEPT !.context = "set"]

\* stop() run to its end
AS_Stopped(s) == [s EXCEPT !.audioQueue = <<>>, !.isPlaying = FALSE, !.context = "null",
                           !.gainNode = FALSE]

\* init() up to its await: a new AudioContext, unless there is one
AS_InitCall ==
  /\ client = "AudioStreamer"
  /\ streamer.context = "null"
  /\ streamer' = [streamer EXCEPT !.context = "set", !.initPending = TRUE]
  /\ play' = Played("init")
  /\ UNCHANGED <<connection, playback, now, sources>>

\* init() after the await: addModule rejected or the context is gone (init
\* throws), or the nodes are made and startTime is the current time
AS_InitDone ==
  /\ client = "AudioStreamer"
  /\ streamer.initPending
  /\ \E ok \in BOOLEAN :
       /\ streamer.context = "null" => ~ok
       /\ streamer' = IF ok THEN [streamer EXCEPT !.initPending = FALSE, !.gainNode = TRUE,
                                                  !.startTime = now]
                            ELSE [streamer EXCEPT !.initPending = FALSE]
       /\ play' = IF ok THEN [Played("initDone") EXCEPT !.last = NoSource]
                        ELSE Played("initDone")
  /\ UNCHANGED <<connection, playback, now, sources>>

\* receiveAudio(audioBuffer): the chunk is queued, and played when nothing plays
AS_Receive ==
  /\ play.next < MaxChunks
  /\ \E dur \in Durations, k \in 0 .. Len(streamer.audioQueue) + 1 :
       LET c == [id |-> play.next + 1, dur |-> dur]
           s0 == [streamer EXCEPT !.audioQueue = Append(@, c)]
       IN /\ streamer.isPlaying => k = 0
          /\ IF streamer.isPlaying
               THEN /\ streamer' = s0
                    /\ sources' = sources
                    /\ play' = [Played("receiveAudio") EXCEPT !.next = play.next + 1]
               ELSE AS_Played("receiveAudio", s0, sources, k, play.next + 1)

\* receiveAudio(audioBuffer), called by the owner of the streamer
AS_ReceiveAudio ==
  /\ client = "AudioStreamer"
  /\ AS_Receive
  /\ UNCHANGED <<connection, playback, now>>

\* source.onended: the source has played to its end
AS_OnEnded(src) ==
  /\ client \in StreamerOwners
  /\ src \in sources
  /\ now >= src.end
  /\ \E k \in 0 .. Len(streamer.audioQueue) :
       AS_Played("ended", streamer, sources \ {src}, k, play.next)
  /\ UNCHANGED <<connection, playback, now>>

\* the 'error' listener of a source
AS_OnError(src) ==
  /\ client \in StreamerOwners
  /\ src \in sources
  /\ \E k \in 0 .. Len(streamer.audioQueue) :
       AS_Played("error", [streamer EXCEPT !.isPlaying = FALSE], sources \ {src}, k,
                 play.next)
  /\ UNCHANGED <<connection, playback, now>>

\* stop() up to its await of context.close()
AS_Stop ==
  /\ client = "AudioStreamer"
  /\ streamer' = IF streamer.context = "null"
                   THEN [streamer EXCEPT !.audioQueue = <<>>, !.isPlaying = FALSE,
                                         !.gainNode = FALSE]
                   ELSE [streamer EXCEPT !.audioQueue = <<>>, !.isPlaying = FALSE,
                                         !.stopPending = TRUE]
  /\ play' = Played("stop")
  /\ UNCHANGED <<connection, playback, now, sources>>

\* stop() after the await: the context and the nodes are cleared
AS_StopDone ==
  /\ client = "AudioStreamer"
  /\ streamer.stopPending
  /\ streamer' = [streamer EXCEPT !.stopPending = FALSE, !.context = "null",
                                  !.gainNode = FALSE]
  /\ play' = Played("stopDone")
  /\ UNCHANGED <<connection, playback, now, sources>>

\* AudioContext.currentTime advances
Tick ==
  /\ client \in Players \cup StreamerOwners
  /\ now < MaxTime
  /\ now' = now + 1
  /\ play' = Played("tick")
  /\ UNCHANGED <<connection, streamer, playback, sources>>

\* AudioPlaybackService.start(); new AudioContext may throw
APS_Start ==
  /\ client = "AudioPlaybackService"
  /\ ~playback.isActive
  /\ \E ok \in BOOLEAN :
       /\ playback' = IF ok THEN [playback EXCEPT !.audioContext = "set",
                                                  !.nextStartTime = now, !.isActive = TRUE]
                            ELSE playback
       /\ play' = IF ok THEN [Played("start") EXCEPT !.last = NoSource] ELSE Played("start")
  /\ UNCHANGED <<connection, streamer, now, sources>>

\* Math.max written as an if: nextStartTime, or currentTime when that is later
APS_ScheduleTime(nextStartTime, currentTime) ==
  IF nextStartTime < currentTime THEN currentTime ELSE nextStartTime

\* queueAudio(audioData), called by the listener start() registered; createBuffer
\* may throw
APS_QueueAudio ==
  /\ client = "AudioPlaybackService"
  /\ play.next < MaxChunks
  /\ \E dur \in Durations, ok \in BOOLEAN :
       IF ~playback.isActive \/ playback.audioContext = "null" \/ ~ok
         THEN /\ (~playback.isActive \/ playback.audioContext = "null") => ok
              /\ playback' = playback
              /\ play' = [Played("queueAudio") EXCEPT
                            !.next = play.next + 1,
                            !.failed = IF ok THEN 0 ELSE 1,
                            !.dropped = IF ok THEN 1 ELSE 0]
         ELSE LET t == APS_ScheduleTime(playback.nextStartTime, now)
                  src == [id |-> play.next + 1, start |-> t, end |-> t + dur]
              IN /\ playback' = [playback EXCEPT !.nextStartTime = t + dur]
                 /\ play' = [Played("queueAudio") EXCEPT !.next = play.next + 1,
                                                         !.sched = src, !.last = src]
  /\ UNCHANGED <<connection, streamer, now, sources>>

\* AudioPlaybackService.stop()
APS_Stop ==
  /\ client = "AudioPlaybackService"
  /\ playback' = [playback EXCEPT !.isActive = FALSE, !.audioContext = "null",
                                  !.nextStartTime = 0]
  /\ play' = [Played("stop") EXCEPT !.last = NoSource]
  /\ UNCHANGED <<connection, streamer, now, sources>>

\* ---------------------------------------------------------------------
\* useLiveApi and its GenAILiveClient
\* React state (isConnected, isConnecting, connectionError) is read as last set:
\* a render happens between two events.  streamer.init() and client.connect()
\* of one connectInternal() are one step, and a streamer.stop() the hook calls
\* runs to its end within the step that calls it.
\* ---------------------------------------------------------------------
\* connectionError: "null", "error" (a message of the transport or of connect) or
\* "max" ('Connection lost. Max reconnection attempts reached.')
Hook_Init == [isConnected |-> FALSE, isConnecting |-> FALSE, connectionError |-> "null",
              shouldReconnect |-> TRUE, reconnectAttempts |-> 0, reconnectTimeout |-> "null",
              streamerInitialized |-> FALSE, lastParams |-> -1]

\* GenAILiveClient.session: "null" or "live" (the handle of the held transport)
GenAI_Init == [session |-> "null"]

\* ControlTray. recorder: "null" or "recording" (recorder.current started; one
\* whose start() failed captures nothing and counts as "null"); isConnected,
\* client: the isConnected and the client (numbered by the version of the
\* settings it was made for) the recorder effect last ran with; session: the
\* session of that client once the hook has torn it down ("null", or "closing":
\* the cleanup called close() on it).  The microphone is not muted.
Tray_Init == [recorder |-> "null", isConnected |-> FALSE, client |-> 0, session |-> "null"]

\* Math.random() * 500
Hook_Jitter(r) == (r * 500) \div 1000

\* Math.min(exponentialDelay + jitter, MAX_RECONNECT_DELAY_MS) of retry n, the
\* counter being n - 1 when the delay is computed
Hook_Delay(n, j) == Min(BASE_RECONNECT_DELAY_MS * Pow(2, n - 1) + j, MAX_RECONNECT_DELAY_MS)

\* scheduleReconnect(), Math.random() returning r / 1000
Hook_ScheduleReconnect(h, r) ==
  IF ~h.shouldReconnect THEN
    [NotCalled(h) EXCEPT !.sched = "disabled"]
  ELSE IF h.reconnectAttempts >= MAX_RECONNECT_ATTEMPTS THEN
    [NotCalled([h EXCEPT !.connectionError = "max"]) EXCEPT !.sched = "max",
                                                            !.emitted = <<"error">>]
  ELSE
    LET n == h.reconnectAttempts + 1 IN
    [g |-> [h EXCEPT !.reconnectAttempts = n, !.reconnectTimeout = "pending"],
     leak |-> IF h.reconnectTimeout = "pending" THEN 1 ELSE 0,
     emitted |-> <<"reconnecting">>, sched |-> "armed",
     attempt |-> n, base |-> Hook_Delay(n, 0), delay |-> Hook_Delay(n, Hook_Jitter(r))]

\* cancelReconnect()
Hook_CancelReconnect(h) == [h EXCEPT !.reconnectTimeout = "null", !.reconnectAttempts = 0]

\* GenAILiveClient.connect() up to its await: nothing happens when a session is held
GenAI_ConnectCall(g) == [started |-> g.session = "null"]

\* connectInternal(isReconnect): the agent and user data are the stored ones
\* for a reconnect and the present settings otherwise; initOk says whether
\* streamer.init() succeeds
Hook_ConnectInternal(h, g, isReconnect, initOk) ==
  LET params == IF isReconnect THEN h.lastParams ELSE settings.ver
      valid == IF isReconnect THEN h.lastParams # -1 ELSE settings.valid
  IN IF ~valid THEN [h |-> h, started |-> FALSE, threw |-> TRUE, params |-> -1]
     ELSE LET h1 == [h EXCEPT !.lastParams = params, !.isConnecting = TRUE,
                              !.connectionError = "null"] IN
          IF ~h1.streamerInitialized /\ ~initOk
            THEN [h |-> [h1 EXCEPT !.connectionError = "error", !.isConnected = FALSE,
                                   !.isConnecting = FALSE],
                  started |-> FALSE, threw |-> TRUE, params |-> -1]
            ELSE [h |-> [h1 EXCEPT !.streamerInitialized = TRUE],
                  started |-> GenAI_ConnectCall(g).started, threw |-> FALSE,
                  params |-> IF GenAI_ConnectCall(g).started THEN params ELSE -1]

\* the code the hook's onClose reads: GenAILiveClient emits 'close' without the
\* event, and onClose takes event?.code ?? 0
Hook_SeenCode(code) == 0

\* the user calls connect()
Hook_Connect ==
  /\ client = "useLiveApi"
  /\ \E initOk \in BOOLEAN :
       /\ (hook.isConnecting \/ hook.streamerInitialized \/ ~settings.valid
              \/ streamer.context = "set") => initOk
       /\ IF hook.isConnecting
           THEN /\ UNCHANGED <<hook, transports, streamer>>
                /\ step' = [NoStep EXCEPT !.op = "connect"]
                /\ settings' = [settings EXCEPT !.called = settings.ver]
           ELSE LET h0 == Hook_CancelReconnect([hook EXCEPT !.shouldReconnect = TRUE])
                    c == Hook_ConnectInternal(h0, genai, FALSE, initOk)
                    tr == IF hook.isConnected THEN CloseHeld(transports) ELSE transports
                    s0 == IF hook.isConnected THEN AS_Stopped(streamer) ELSE streamer
                IN /\ streamer' = IF settings.valid /\ ~hook.streamerInitialized
                                    THEN AS_Initialized(s0, initOk) ELSE s0
                   /\ c.started => Pending - (IF hook.reconnectTimeout = "pending" THEN 1 ELSE 0)
                                   < MaxPending
                   /\ hook' = c.h
                   /\ transports' = IF c.started THEN Add(tr, NewTransport) ELSE tr
                   /\ step' = [NoStep EXCEPT !.op = "connect", !.started = c.started,
                                             !.params = c.params,
                                             !.invalid = ~settings.valid]
                   /\ settings' = [settings EXCEPT
                                     !.called = settings.ver,
                                     !.captured = IF settings.valid THEN settings.ver ELSE @]
  /\ owner' = "connect"
  /\ chain' = IF hook.isConnecting THEN chain ELSE 0
  /\ lastBase' = IF hook.isConnecting THEN lastBase ELSE 0
  /\ io' = NoCall
  /\ UNCHANGED <<hookRest, vad, client, leaked, glc, genai, gc, sinceOpen>>

\* the user calls disconnect()
Hook_Disconnect ==
  /\ client = "useLiveApi"
  /\ hook' = [Hook_CancelReconnect([hook EXCEPT !.shouldReconnect = FALSE])
                EXCEPT !.isConnected = FALSE, !.isConnecting = FALSE,
                       !.connectionError = "null"]
  /\ transports' = CloseHeld(transports)
  /\ streamer' = AS_Stopped(streamer)
  /\ step' = [NoStep EXCEPT !.op = "disconnect"]
  /\ owner' = "disconnect"
  /\ chain' = 0
  /\ lastBase' = 0
  /\ io' = NoCall
  /\ UNCHANGED <<hookRest, settings, vad, client, leaked, glc, genai, gc, sinceOpen>>

\* what a handler of the hook that may call scheduleReconnect leaves behind
Hook_Scheduled(s, op, code, first) ==
  /\ (s.sched = "armed" /\ op = "onerror") => Pending < MaxPending
  /\ hook' = s.g
  /\ leaked' = leaked + s.leak
  /\ chain' = IF s.sched = "armed" THEN chain + 1 ELSE chain
  /\ sinceOpen' = IF s.sched = "armed" THEN Min(sinceOpen + 1, MAX_RECONNECT_ATTEMPTS + 1)
                                       ELSE sinceOpen
  /\ lastBase' = IF s.sched = "armed" THEN s.base ELSE lastBase
  /\ step' = [NoStep EXCEPT !.op = op, !.emitted = first \o s.emitted, !.sched = s.sched,
                            !.attempt = s.attempt, !.base = s.base, !.delay = s.delay,
                            !.code = code, !.byTransport = s.sched = "armed"]

\* a reconnect timer fires: connectInternal(true), and scheduleReconnect() when it throws
Hook_TimerFire ==
  /\ client = "useLiveApi"
  /\ \E which \in {"handle", "leaked"}, initOk \in BOOLEAN,
        r \in Draws(~hook.streamerInitialized) :
       /\ which = "handle" => hook.reconnectTimeout = "pending"
       /\ which = "leaked" => leaked > 0
       /\ LET h0 == IF which = "handle" THEN [hook EXCEPT !.reconnectTimeout = "fired"] ELSE hook
              c == Hook_ConnectInternal(h0, genai, TRUE, initOk)
              s == IF c.threw THEN Hook_ScheduleReconnect(c.h, r) ELSE NotCalled(c.h)
          IN /\ (hook.streamerInitialized \/ streamer.context = "set") => initOk
             /\ ~c.threw => r = 0
             /\ streamer' = IF hook.lastParams # -1 /\ ~hook.streamerInitialized
                              THEN AS_Initialized(streamer, initOk) ELSE streamer
             /\ hook' = s.g
             /\ leaked' = leaked - (IF which = "leaked" THEN 1 ELSE 0) + s.leak
             /\ chain' = IF s.sched = "armed" THEN chain + 1 ELSE chain
             /\ sinceOpen' = IF s.sched = "armed"
                               THEN Min(sinceOpen + 1, MAX_RECONNECT_ATTEMPTS + 1)
                               ELSE sinceOpen
             /\ lastBase' = IF s.sched = "armed" THEN s.base ELSE lastBase
             /\ transports' = IF c.started THEN Add(transports, NewTransport) ELSE transports
             /\ step' = [NoStep EXCEPT !.op = "timer", !.started = c.started,
                                       !.params = c.params,
                                       !.emitted = s.emitted, !.sched = s.sched,
                                       !.attempt = s.attempt, !.base = s.base,
                                       !.delay = s.delay]
  /\ io' = NoCall
  /\ UNCHANGED <<hookRest, settings, vad, client, glc, genai, gc, owner>>

\* callbacks.onopen emits 'open' (the hook's onOpen), then connect() stores the session
GenAI_OnOpen(t) ==
  /\ client = "useLiveApi"
  /\ t.phase = "connecting" /\ ~t.errored /\ ~t.closing
  /\ hook' = [hook EXCEPT !.isConnected = TRUE, !.isConnecting = FALSE,
                          !.connectionError = "null", !.reconnectAttempts = 0]
  /\ genai' = [genai EXCEPT !.session = "live"]
  /\ transports' = Add(Unhold(Remove(transports, t)),
                       [t EXCEPT !.phase = "open", !.held = TRUE])
  /\ step' = [NoStep EXCEPT !.op = "onopen", !.emitted = <<"open">>,
                            !.before = hook.reconnectAttempts]
  /\ chain' = 0
  /\ sinceOpen' = 0
  /\ lastBase' = 0
  /\ io' = NoCall
  /\ UNCHANGED <<rest, settings, vad, client, leaked, glc, gc, owner>>

\* callbacks.onclose emits 'close' (the hook's onClose), then clears the session
GenAI_OnClose(t, code) ==
  /\ client = "useLiveApi"
  /\ t.closing => code = 1000
  /\ \E r \in Draws(Hook_SeenCode(code) \notin {1000, 1001}
                      /\ Hook_ScheduleReconnect(hook, 0).sched = "armed") :
       LET h0 == [hook EXCEPT !.isConnected = FALSE, !.isConnecting = FALSE]
           seen == Hook_SeenCode(code)
           normalClosure == seen = 1000 \/ seen = 1001
       IN Hook_Scheduled(IF ~normalClosure /\ h0.shouldReconnect
                           THEN Hook_ScheduleReconnect(h0, r) ELSE NotCalled(h0),
                         "onclose", code, <<"close">>)
  /\ genai' = [genai EXCEPT !.session = "null"]
  /\ transports' = Unhold(Remove(transports, t))
  /\ io' = NoCall
  /\ UNCHANGED <<rest, settings, vad, client, glc, gc, owner>>

\* callbacks.onerror emits 'error' (the hook's onError), then clears the session
GenAI_OnError(t) ==
  /\ client = "useLiveApi"
  /\ ~t.errored
  /\ hook' = [hook EXCEPT !.connectionError = "error"]
  /\ genai' = [genai EXCEPT !.session = "null"]
  /\ transports' = Unhold(Replace(transports, t, [t EXCEPT !.errored = TRUE]))
  /\ step' = [NoStep EXCEPT !.op = "onerror", !.emitted = <<"error">>]
  /\ io' = NoCall
  /\ UNCHANGED <<rest, settings, vad, client, leaked, glc, gc, owner, chain, sinceOpen, lastBase>>

\* ai.live.connect rejects: GenAILiveClient.connect() catches and emits 'error'
GenAI_Reject(t) ==
  /\ client = "useLiveApi"
  /\ t.phase = "connecting"
  /\ hook' = [hook EXCEPT !.connectionError = "error"]
  /\ transports' = Remove(transports, t)
  /\ step' = [NoStep EXCEPT !.op = "reject", !.emitted = <<"error">>]
  /\ io' = NoCall
  /\ UNCHANGED <<rest, settings, vad, client, leaked, glc, genai, gc, owner, chain, sinceOpen, lastBase>>

\* the user edits the agent or the user data: connectInternal, scheduleReconnect
\* and with them the effect that owns the client change, so the effect's
\* cleanup runs (reconnects off and cancelled, listeners removed, the client
\* disconnected, the streamer stopped) and the effect makes a new client; the
\* old client's transports no longer reach the hook; the new streamer has no
\* context and no sources.  A recorder of ControlTray that is capturing still
\* writes to the old client.  The render and the flush of the effect are one
\* step.
Hook_Edit ==
  /\ client = "useLiveApi"
  /\ settings.ver < MaxEdits
  /\ \E valid \in BOOLEAN : settings' = [settings EXCEPT !.ver = @ + 1, !.valid = valid]
  /\ hook' = [Hook_CancelReconnect([hook EXCEPT !.shouldReconnect = FALSE])
                EXCEPT !.streamerInitialized = FALSE]
  /\ genai' = GenAI_Init
  /\ transports' = EmptyBag
  /\ streamer' = AS_Init
  /\ sources' = {}
  /\ tray' = IF tray.recorder = "null" THEN tray
             ELSE [tray EXCEPT !.session = IF genai.session = "null" THEN "null"
                                            ELSE "closing"]
  /\ step' = [NoStep EXCEPT !.op = "edit"]
  /\ chain' = 0
  /\ lastBase' = 0
  /\ io' = NoCall
  /\ UNCHANGED <<rs, playback, now, play, vad, client, leaked, glc, gc, owner, sinceOpen>>

Hook_Next ==
  \/ Hook_Connect
  \/ Hook_Disconnect
  \/ Hook_TimerFire
  \/ \E t \in Live : GenAI_OnOpen(t)
  \/ \E t \in Live : GenAI_OnError(t)
  \/ \E t \in Live : \E code \in CloseCodes : GenAI_OnClose(t, code)
  \/ \E t \in Live : GenAI_Reject(t)

\* ---------------------------------------------------------------------
\* GeminiClient (WebSocket of the ws package)
\* ---------------------------------------------------------------------
\* ws: "null" or "live" (the socket of the held transport)
GC_Init == [ws |-> "null", connected |-> FALSE, connecting |-> FALSE]

\* the owner calls connect()
GC_Connect ==
  /\ client = "GeminiClient"
  /\ IF gc.connected \/ gc.connecting
       THEN /\ UNCHANGED <<gc, transports>>
            /\ step' = [NoStep EXCEPT !.op = "connect"]
       ELSE /\ Pending < MaxPending
            /\ gc' = [gc EXCEPT !.connecting = TRUE, !.ws = "live"]
            /\ transports' = Add(Unhold(transports), [NewTransport EXCEPT !.held = TRUE])
            /\ step' = [NoStep EXCEPT !.op = "connect", !.started = TRUE]
  /\ owner' = "connect"
  /\ io' = NoCall
  /\ UNCHANGED <<rest, settings, vad, client, leaked, glc, hook, genai, chain, sinceOpen, lastBase>>

\* the owner calls disconnect()
GC_Disconnect ==
  /\ client = "GeminiClient"
  /\ gc' = [gc EXCEPT !.ws = "null", !.connected = FALSE, !.connecting = FALSE]
  /\ transports' = Unhold(CloseHeld(transports))
  /\ step' = [NoStep EXCEPT !.op = "disconnect", !.emitted = <<"statusChange">>]
  /\ owner' = "disconnect"
  /\ io' = NoCall
  /\ UNCHANGED <<rest, settings, vad, client, leaked, glc, hook, genai, chain, sinceOpen, lastBase>>

\* onOpen(systemInstruction)
GC_OnOpen(t) ==
  /\ client = "GeminiClient"
  /\ t.phase = "connecting" /\ ~t.errored /\ ~t.closing
  /\ gc' = IF gc.ws = "null" THEN gc
           ELSE [gc EXCEPT !.connected = TRUE, !.connecting = FALSE]
  /\ transports' = Replace(transports, t, [t EXCEPT !.phase = "open"])
  /\ step' = [NoStep EXCEPT !.op = "onopen",
                            !.emitted = IF gc.ws = "null" THEN <<>> ELSE <<"statusChange">>]
  /\ io' = NoCall
  /\ UNCHANGED <<rest, settings, vad, client, leaked, glc, hook, genai, owner, chain, sinceOpen, lastBase>>

\* onClose(code, reason); a socket closed by close(1000) reports 1000
GC_OnClose(t, code) ==
  /\ client = "GeminiClient"
  /\ t.closing => code = 1000
  /\ gc' = [gc EXCEPT !.connected = FALSE, !.connecting = FALSE]
  /\ transports' = Remove(transports, t)
  /\ step' = [NoStep EXCEPT !.op = "onclose", !.code = code, !.emitted = <<"statusChange">>]
  /\ io' = NoCall
  /\ UNCHANGED <<rest, settings, vad, client, leaked, glc, hook, genai, owner, chain, sinceOpen, lastBase>>

\* onError(error)
GC_OnError(t) ==
  /\ client = "GeminiClient"
  /\ ~t.errored
  /\ transports' = Replace(transports, t, [t EXCEPT !.errored = TRUE])
  /\ step' = [NoStep EXCEPT !.op = "onerror", !.emitted = <<"statusChange", "error">>]
  /\ io' = NoCall
  /\ UNCHANGED <<rest, settings, vad, client, leaked, glc, hook, genai, gc, owner, chain, sinceOpen, lastBase>>

GC_Next ==
  \/ GC_Connect
  \/ GC_Disconnect
  \/ \E t \in Live : GC_OnOpen(t)
  \/ \E t \in Live : GC_OnError(t)
  \/ \E t \in Live : \E code \in CloseCodes : GC_OnClose(t, code)

\* ---------------------------------------------------------------------
\* The audio and text path of the three clients
\* ---------------------------------------------------------------------
\* the transport the client's handle refers to takes writes
HeldOpen == \E t \in Live : t.held /\ t.phase = "open" /\ ~t.closing

\* what a write to the held transport does: an open transport takes it; one
\* that is not open refuses it with an exception or discards it
WriteOutcomes == IF HeldOpen THEN {"sent"} ELSE {"thrown", "dropped"}

\* GeminiLiveClient.sendAudio(audioChunk)
GLC_SendAudio(f) ==
  /\ client = "GeminiLiveClient"
  /\ IF ~glc.isConnected \/ glc.session = "null" THEN
       /\ io' = [NoIO EXCEPT !.op = "sendAudio", !.result = "thrown", !.len = f.len,
                             !.active = VAD_HasVoiceActivity(f),
                             !.frames = io.frames, !.more = io.more,
                             !.passing = vad.isSpeaking]
       /\ vad' = vad
     ELSE
       LET p == VAD_Process(vad, f)
           n == PrepareForGeminiSamples(f.len, UPSTREAM)
       IN /\ p.v.speechFrameCount <= MaxFrameCount
          /\ p.v.silenceFrameCount <= MaxFrameCount
          /\ vad' = p.v
          /\ \E w \in IF p.ret THEN WriteOutcomes ELSE {"skipped"} :
               io' = [NoIO EXCEPT !.op = "sendAudio", !.len = f.len,
                                  !.active = VAD_HasVoiceActivity(f),
                                  !.passing = vad.isSpeaking,
                                  !.processed = TRUE, !.ret = p.ret,
                                  !.frames = FramesAfter(vad, f), !.more = MoreAfter(vad),
                                  !.result = CASE w = "thrown" -> "failed"
                                               [] w = "dropped" -> "lost"
                                               [] OTHER -> w,
                                  !.payloads = IF w = "sent" THEN 1 ELSE 0,
                                  !.samples = IF w = "sent" THEN n ELSE 0]
  /\ UNCHANGED <<rest, settings, client, transports, leaked, glc, hook, genai, gc, owner,
                 chain, sinceOpen, lastBase, step>>

\* what an inbound message carries in place of a playable audio part: "none"
\* (no audio part), "ok", "bad" (an audio part prepareForPlayback throws on),
\* "unparsed" (event.data is a string JSON.parse throws on)
MessageAudio == {"none", "ok", "bad", "unparsed"}

\* callbacks.onmessage: handleMessage(event), turnComplete being
\* message.serverContent?.turnComplete; an exception leaves the try block
GLC_OnMessage(t, audio, turnComplete) ==
  /\ client = "GeminiLiveClient"
  /\ t.phase = "open"
  /\ audio = "unparsed" => ~turnComplete
  /\ LET reached == turnComplete /\ audio # "bad"
         kept == audio = "unparsed" \/ (vad.isGeminiSpeaking /\ ~reached)
     IN /\ vad' = IF audio = "unparsed" THEN vad
                  ELSE IF reached
                    THEN VAD_SetGeminiSpeaking(VAD_SetGeminiSpeaking(vad, TRUE), FALSE)
                    ELSE VAD_SetGeminiSpeaking(vad, TRUE)
        /\ io' = [NoIO EXCEPT !.op = "onmessage",
                              !.result = IF audio \in {"bad", "unparsed"} THEN "thrown"
                                                                         ELSE "none",
                              !.audio = audio, !.turnComplete = turnComplete,
                              !.frames = IF kept THEN io.frames ELSE <<>>,
                              !.more = IF kept THEN io.more ELSE FALSE]
  /\ UNCHANGED <<rest, settings, client, transports, leaked, glc, hook, genai, gc, owner,
                 chain, sinceOpen, lastBase, step>>

\* GeminiClient.sendText(text)
GC_SendText ==
  /\ client = "GeminiClient"
  /\ \E w \in IF ~gc.connected \/ gc.ws = "null" THEN {"thrown"} ELSE WriteOutcomes :
       io' = [NoIO EXCEPT !.op = "sendText", !.result = w,
                          !.payloads = IF w = "sent" THEN 1 ELSE 0]
  /\ UNCHANGED <<rest, settings, vad, client, transports, leaked, glc, hook, genai, gc,
                 owner, chain, sinceOpen, lastBase, step>>

\* GeminiClient.sendAudio(buffer)
GC_SendAudio ==
  /\ client = "GeminiClient"
  /\ \E w \in IF ~gc.connected \/ gc.ws = "null" THEN {"dropped"} ELSE WriteOutcomes :
       io' = [NoIO EXCEPT !.op = "sendAudio", !.result = w,
                          !.payloads = IF w = "sent" THEN 1 ELSE 0]
  /\ UNCHANGED <<rest, settings, vad, client, transports, leaked, glc, hook, genai, gc,
                 owner, chain, sinceOpen, lastBase, step>>

\* GenAILiveClient.sendInitialText(text)
GenAI_SendInitialText ==
  /\ client = "useLiveApi"
  /\ \E w \in IF genai.session = "null" THEN {"dropped"} ELSE WriteOutcomes :
       io' = [NoIO EXCEPT !.op = "sendText", !.result = w,
                          !.payloads = IF w = "sent" THEN 1 ELSE 0]
  /\ UNCHANGED <<rest, settings, vad, client, transports, leaked, glc, hook, genai, gc,
                 owner, chain, sinceOpen, lastBase, step>>

PlaybackNext ==
  \/ AS_InitCall
  \/ AS_InitDone
  \/ AS_ReceiveAudio
  \/ \E src \in sources : AS_OnEnded(src)
  \/ \E src \in sources : AS_OnError(src)
  \/ AS_Stop
  \/ AS_StopDone
  \/ Tick
  \/ APS_Start
  \/ APS_QueueAudio
  \/ APS_Stop

\* ---------------------------------------------------------------------
\* useLiveApi with its devices: the AudioStreamer it plays through and the
\* AudioRecorder of ControlTray
\* ---------------------------------------------------------------------
\* the hook's onAudio, for an audio part of a message of the client's session:
\* streamer.receiveAudio(audio)
GenAI_OnAudio(t) ==
  /\ client = "useLiveApi"
  /\ t.phase = "open"
  /\ AS_Receive
  /\ UNCHANGED <<connection, playback, now>>

\* the recorder effect of ControlTray runs after a render in which isConnected
\* or the client changed: its cleanup stops the recorder, setupRecorder starts
\* a new one when connected (started: start() got the microphone)
Tray_Effect ==
  /\ client = "useLiveApi"
  /\ tray.isConnected # hook.isConnected \/ tray.client # settings.ver
  /\ \E started \in BOOLEAN :
       /\ ~hook.isConnected => ~started
       /\ tray' = [recorder |-> IF started THEN "recording" ELSE "null",
                   isConnected |-> hook.isConnected, client |-> settings.ver,
                   session |-> "null"]
  /\ io' = NoCall
  /\ UNCHANGED <<client, transports, leaked, glc, hook, genai, gc, owner, chain, sinceOpen,
                 lastBase, step, settings, vad, rs, streamer, playback, now, sources, play>>

\* the recorder emits 'data': client.sendRealtimeInput(data, 'audio/pcm') on the
\* client the effect captured
Recorder_Data ==
  /\ client = "useLiveApi"
  /\ tray.recorder = "recording"
  /\ LET current == tray.client = settings.ver
         session == IF current THEN genai.session ELSE tray.session
     IN \E w \in IF session = "null" THEN {"dropped"}
                  ELSE IF current THEN WriteOutcomes ELSE {"thrown", "dropped"} :
          io' = [NoCall EXCEPT !.op = "sendRealtimeInput",
                               !.result = CASE session = "null" -> "dropped"
                                            [] w = "thrown" -> "failed"
                                            [] w = "dropped" -> "lost"
                                            [] OTHER -> w,
                               !.payloads = IF w = "sent" THEN 1 ELSE 0]
  /\ UNCHANGED <<client, transports, leaked, glc, hook, genai, gc, owner, chain, sinceOpen,
                 lastBase, step, settings, vad, rs, streamer, playback, now, sources, play,
                 tray>>

\* Resampling on its own: a resampler of sourceRate -> targetRate, an input of
\* len samples, and out, the length of the buffer resample() returned (-1
\* before the call)
RS_Idle == [sourceRate |-> 48000, targetRate |-> 16000, len |-> 0, out |-> -1]

\* sample rates: those of the program (16, 24, 48 kHz), other audio rates and
\* two small ones
Rates == {3, 13, 16000, 22000, 24000, 44100, 48000}

Lengths == 0 .. MaxLen \cup {4096}

RS_Inputs == [sourceRate : Rates, targetRate : Rates, len : Lengths, out : {-1}]

\* resample(input) / downsample(input) on a new AudioResampler(sourceRate, targetRate)
RS_Resample ==
  /\ rs.out = -1
  /\ rs' = [rs EXCEPT !.out = ResampleLength(Resampler(rs.sourceRate, rs.targetRate),
                                              rs.len)]
  /\ UNCHANGED <<client, transports, leaked, glc, hook, genai, gc, owner, chain, sinceOpen,
                 lastBase, step, settings, vad, io, streamer, playback, now, sources, play,
                 tray>>

\* ---------------------------------------------------------------------
IdleInit ==
  /\ transports = EmptyBag
  /\ leaked = 0
  /\ glc = GLC_Init
  /\ hook = Hook_Init
  /\ genai = GenAI_Init
  /\ gc = GC_Init
  /\ sinceOpen = 0
  /\ lastBase = 0
  /\ owner = "none"
  /\ chain = 0
  /\ step = NoStep
  /\ settings = Settings_Init
  /\ vad = VAD_Init
  /\ io = NoIO
  /\ streamer = AS_Init
  /\ playback = APS_Init
  /\ now = 0
  /\ sources = {}
  /\ play = NoPlay
  /\ tray = Tray_Init

ConnInit == client \in Clients /\ IdleInit

Init == ConnInit /\ rs = RS_Idle

Next == GLC_Next \/ Hook_Next \/ GC_Next

Spec == Init /\ [][Next]_vars

\* the audio and text path, over sessions the transport closes normally
\* (reconnection is observed under Spec)
AudioNext ==
  \/ GLC_Connect
  \/ GLC_Disconnect
  \/ \E t \in Live : GLC_OnOpen(t)
  \/ \E t \in Live : GLC_OnClose(t, 1000)
  \/ \E t \in Live : \E audio \in MessageAudio, turnComplete \in BOOLEAN :
       GLC_OnMessage(t, audio, turnComplete)
  \/ \E f \in Frames : GLC_SendAudio(f)
  \/ Hook_Connect
  \/ Hook_Disconnect
  \/ \E t \in Live : GenAI_OnOpen(t)
  \/ \E t \in Live : GenAI_OnClose(t, 1000)
  \/ GenAI_SendInitialText
  \/ GC_Next
  \/ GC_SendText
  \/ GC_SendAudio

AudioSpec == Init /\ [][AudioNext]_vars

\* the two reconnecting clients with an owner who edits the settings, the
\* transports opening and closing
ParamNext ==
  \/ GLC_Connect
  \/ GLC_Disconnect
  \/ GLC_TimerFire
  \/ GLC_Edit
  \/ \E t \in Live : GLC_OnOpen(t)
  \/ \E t \in Live : \E code \in {1000, 1006} : GLC_OnClose(t, code)
  \/ Hook_Connect
  \/ Hook_Disconnect
  \/ Hook_TimerFire
  \/ Hook_Edit
  \/ \E t \in Live : GenAI_OnOpen(t)
  \/ \E t \in Live : \E code \in {1000, 1006} : GenAI_OnClose(t, code)

ParamSpec == Init /\ [][ParamNext]_vars

\* useLiveApi and the recorder of ControlTray: the user connects, disconnects
\* and edits the settings, the transports open and close
TrayNext ==
  \/ Hook_Connect
  \/ Hook_Disconnect
  \/ Hook_Edit
  \/ \E t \in Live : GenAI_OnOpen(t)
  \/ \E t \in Live : GenAI_OnClose(t, 1000)
  \/ Tray_Effect
  \/ Recorder_Data

LiveApiInit == client = "useLiveApi" /\ IdleInit /\ rs = RS_Idle

TraySpec == LiveApiInit /\ [][TrayNext]_vars

\* useLiveApi and its streamer: the user connects and disconnects, the
\* transports open, deliver audio and close, the sources end or fail
LiveApiNext ==
  \/ Hook_Connect
  \/ Hook_Disconnect
  \/ \E t \in Live : GenAI_OnOpen(t)
  \/ \E t \in Live : GenAI_OnClose(t, 1000)
  \/ \E t \in Live : GenAI_OnAudio(t)
  \/ \E src \in sources : AS_OnEnded(src)
  \/ \E src \in sources : AS_OnError(src)
  \/ Tick

LiveApiSpec == LiveApiInit /\ [][LiveApiNext]_vars

\* AudioStreamer and AudioPlaybackService, each on its own, with the clock
PlaybackInit == client \in Players /\ IdleInit /\ rs = RS_Idle

PlaybackSpec == PlaybackInit /\ [][PlaybackNext]_vars

\* the resampler applied to every input of RS_Inputs
ResampleInit == ConnInit /\ client = "GeminiLiveClient" /\ rs \in RS_Inputs

ResampleSpec == ResampleInit /\ [][RS_Resample]_vars

\* =====================================================================
\* Properties
\* =====================================================================
Has(seq, e) == \E i \in 1 .. Len(seq) : seq[i] = e
Count(seq, e) == Cardinality({i \in 1 .. Len(seq) : seq[i] = e})
Reconnecting == client \in {"GeminiLiveClient", "useLiveApi"}
Attempts == IF client = "GeminiLiveClient" THEN glc.reconnectAttempts
                                           ELSE hook.reconnectAttempts
AbnormalClose == step.op = "onclose" /\ step.code \notin {1000, 1001}
NormalClose == step.op = "onclose" /\ step.code \in {1000, 1001}

\* C1: in GeminiLiveClient and in useLiveApi, once the owner has called
\* disconnect() (and has not called connect() since), a transport close with an
\* abnormal code schedules no reconnect: no timer is armed, no 'reconnecting' is
\* emitted, the attempt counter is not incremented.
C1_NoReconnectAfterDisconnect ==
  (Reconnecting /\ owner = "disconnect" /\ AbnormalClose)
    => (step.sched # "armed" /\ ~Has(step.emitted, "reconnecting"))

\* C2: after GeminiLiveClient.disconnect(), whatever the state it was called in,
\* no new connection attempt starts and the client is not connected again until
\* the owner calls connect().
C2_DisconnectIsFinal ==
  (client = "GeminiLiveClient" /\ owner = "disconnect")
    => (~glc.isConnected /\ ~step.started)

\* C3: for one client there are never two transport connection attempts in
\* flight at the same time (a connect() while Connecting is a no-op), in
\* GeminiClient, GeminiLiveClient and useLiveApi.
C3_OneAttemptInFlight == NumInFlight <= 1

\* C4: when the owner's connect() or disconnect() returns, no reconnect timer is
\* pending any more: every timer pending at the call was cancelled.
C4_OwnerCallCancelsTimer ==
  (Reconnecting /\ step.op \in {"connect", "disconnect"}) => PendingTimers = 0

\* C5: when the open session of a GeminiLiveClient with attempt counter 0 and
\* reconnection enabled observes a close with code 1006, exactly one
\* 'reconnecting' is emitted, with attempt = 1 and 1000 <= delay < 1500.
C5_FirstReconnectEvent ==
  [][(/\ client = "GeminiLiveClient"
      /\ glc.isConnected /\ glc.session = "live"
      /\ glc.reconnectAttempts = 0 /\ glc.shouldReconnect
      /\ step'.op = "onclose" /\ step'.code = 1006
      /\ glc'.session = "closed")
       => (/\ Count(step'.emitted, "reconnecting") = 1
           /\ step'.attempt = 1
           /\ 1000 <= step'.delay /\ step'.delay < 1500)]_vars

\* C6: the closure of a GeminiLiveClient transport with code 1000 or 1001 emits
\* no 'reconnecting' and arms no reconnect timer, whatever shouldReconnect is and
\* whatever other callbacks the transport delivered for it.
C6_NormalCloseNeverReconnects ==
  (client = "GeminiLiveClient" /\ NormalClose)
    => (~step.byTransport /\ ~Has(step.emitted, "reconnecting"))

\* C7: in useLiveApi a closure the transport reports with code 1000 or 1001
\* never calls scheduleReconnect (the hook's onClose sees the reported code).
C7_HookNormalCloseNeverReconnects ==
  (client = "useLiveApi" /\ NormalClose) => step.sched = "none"

\* C8 as stated: without an intervening successful open at most maxAttempts
\* reconnects are scheduled, and a reconnect requested with the counter at
\* maxAttempts arms no timer and surfaces the terminal error.
C8_AtMostMaxSinceOpen ==
  Reconnecting =>
    /\ sinceOpen <= maxAttempts
    /\ step.sched = "armed" => step.attempt <= maxAttempts
    /\ step.sched = "max" =>
         IF client = "GeminiLiveClient" THEN Has(step.emitted, "error")
                                        ELSE hook.connectionError = "max"

\* C8 amended: in GeminiLiveClient at most maxAttempts reconnects are scheduled
\* without an intervening open; in useLiveApi at most MAX_RECONNECT_ATTEMPTS
\* without an intervening open or user connect()/disconnect() that reset the
\* counter.  A reconnect requested with the counter at the maximum arms no timer
\* and surfaces the terminal error.
C8_AtMostMaxPerChain ==
  /\ [](Reconnecting =>
          /\ client = "GeminiLiveClient" => sinceOpen <= maxAttempts
          /\ client = "useLiveApi" => chain <= MAX_RECONNECT_ATTEMPTS
          /\ step.sched = "armed" => step.attempt <= maxAttempts
          /\ step.sched = "max" =>
               IF client = "GeminiLiveClient" THEN Has(step.emitted, "error")
                                              ELSE hook.connectionError = "max")
  /\ [][(Reconnecting /\ Attempts >= maxAttempts /\ step'.sched # "none"
                      /\ step'.sched # "disabled")
          => (step'.sched = "max" /\ PendingTimers' <= PendingTimers)]_vars

\* a reconnect was requested with the counter at the maximum
C8_Witness == Reconnecting /\ step.sched = "max" /\ Attempts = maxAttempts

\* C9: every transition to Open leaves the attempt counter at 0, and the retry
\* scheduled with the counter at 0 is attempt 1 with the base delay.
C9_OpenResetsAttempts ==
  /\ []((Reconnecting /\ step.op = "onopen") => Attempts = 0)
  /\ [][(Reconnecting /\ Attempts = 0 /\ step'.sched = "armed")
          => (step'.attempt = 1 /\ step'.base = initialDelay)]_vars

\* an open that found a counter above 0
C9_Witness == Reconnecting /\ step.op = "onopen" /\ step.before > 0 /\ Attempts = 0

\* C10: the jitter-free part of the delay of retry n, n = 1..10, is at most
\* 30000 ms and not below that of retry n - 1 (the delay with the random term
\* at 0: useLiveApi caps the sum of both).
C10_BackoffBoundedMonotone ==
  /\ []((Reconnecting /\ step.sched = "armed") => step.base <= maxDelay)
  /\ [][(Reconnecting /\ step'.sched = "armed" /\ step'.attempt > 1)
          => step'.base >= lastBase]_vars

\* the tenth retry, scheduled at the cap after a smaller delay
C10_Witness ==
  Reconnecting /\ step.sched = "armed" /\ step.attempt = maxAttempts
               /\ step.base = maxDelay /\ lastBase = maxDelay

\* C11: while the detector's remote-speaking flag is set, every process() call
\* returns false whatever the frame's energy and zero-crossing rate, nothing is
\* written for it, isSpeaking is false and both frame counters are 0.
C11_RemoteSpeakingBlocksGate ==
  vad.isGeminiSpeaking =>
    /\ VAD_IsReset(vad)
    /\ (io.op = "sendAudio" /\ io.processed) => (~io.ret /\ io.payloads = 0)

\* process() was given a frame with voice activity while the remote peer spoke
C11_Witness ==
  vad.isGeminiSpeaking /\ io.op = "sendAudio" /\ io.processed /\ io.active

AllActive(fs) == \A i \in 1..Len(fs) : fs[i]

\* C12: from a reset detector with the remote peer silent, fewer than
\* minSpeechFrames active frames, followed or not by an inactive one, never
\* make process() return true, and the minSpeechFrames-th consecutive active
\* frame makes it return true.
C12_SpeechNeedsMinFrames ==
  (io.op = "sendAudio" /\ io.processed /\ ~io.more /\ io.frames # <<>>) =>
    /\ (AllActive(io.frames) /\ Len(io.frames) < minSpeechFrames) => ~io.ret
    /\ ~io.frames[Len(io.frames)] => ~io.ret
    /\ (AllActive(io.frames) /\ Len(io.frames) = minSpeechFrames) => io.ret

\* the third consecutive active frame after a reset opened the gate
C12_Witness ==
  /\ io.op = "sendAudio" /\ io.processed /\ ~io.more /\ io.ret
  /\ Len(io.frames) = minSpeechFrames /\ AllActive(io.frames)

\* two active frames and an inactive one after a reset
C12_WitnessInactive ==
  /\ io.op = "sendAudio" /\ io.processed /\ ~io.more /\ ~io.ret
  /\ Len(io.frames) = minSpeechFrames /\ ~io.frames[minSpeechFrames]
  /\ AllActive(SubSeq(io.frames, 1, minSpeechFrames - 1))

\* the client's own guard of a send finds it connected
SessionOpen ==
  CASE client = "GeminiLiveClient" -> glc.isConnected /\ glc.session # "null"
    [] client = "useLiveApi" -> genai.session # "null"
    [] OTHER -> gc.connected /\ gc.ws # "null"

\* C13: a text send (GeminiClient.sendText, GenAILiveClient.sendInitialText)
\* attempted while the session is not open fails with a not-connected error
\* to the caller and writes nothing to the transport.
C13_TextSendRejected ==
  (io.op = "sendText" /\ ~SessionOpen) => (io.result = "thrown" /\ io.payloads = 0)

\* C14: sendAudio (GeminiClient, GeminiLiveClient) called while the session is
\* not open transmits nothing, raises no error to the caller, and leaves the
\* session and the voice gate unchanged.
C14_AudioSendSilentNoOp ==
  /\ []((io.op = "sendAudio" /\ ~SessionOpen)
          => (io.result = "dropped" /\ io.payloads = 0 /\ ~io.processed))
  /\ [][(io'.op = "sendAudio" /\ io' # io /\ ~SessionOpen)
          => (vad' = vad /\ glc' = glc /\ gc' = gc /\ transports' = transports)]_vars

\* the last call was GeminiLiveClient.sendAudio with a frame of 4096 samples,
\* the session open, the remote peer silent and the gate passing audio
OpenPassingFrame ==
  /\ client = "GeminiLiveClient" /\ io.op = "sendAudio" /\ HeldOpen /\ io.processed
  /\ ~vad.isGeminiSpeaking /\ io.passing /\ io.len = 4096

\* C15 as stated: with the session open, the remote peer not speaking and the
\* gate already passing, one sendAudio call with a 4096-sample frame transmits
\* exactly one payload of 1365 samples.
C15_OneFrameOnePayload ==
  OpenPassingFrame => (io.payloads = 1 /\ io.samples = 1365)

\* C15 amended: the same, for a frame that has voice activity or is not the
\* minSilenceFrames-th consecutive frame without it; that frame closes the gate
\* and nothing is transmitted for it.
C15_OneFrameOnePayloadWhileGateStaysOpen ==
  /\ (OpenPassingFrame /\ (io.active \/ vad.silenceFrameCount < minSilenceFrames))
       => (io.payloads = 1 /\ io.samples = 1365)
  /\ (OpenPassingFrame /\ ~io.active /\ vad.silenceFrameCount >= minSilenceFrames)
       => (io.payloads = 0 /\ io.result = "skipped")

\* a silent frame sent through the gate that was already passing
C15_Witness ==
  OpenPassingFrame /\ ~io.active /\ io.payloads = 1 /\ io.samples = 1365

\* C16: for every input length and every pair of positive integer rates the
\* resampler's output has exactly floor(L * targetRate / sourceRate) samples.
C16_ExactOutputLength ==
  rs.out # -1 => rs.out = (rs.len * rs.targetRate) \div rs.sourceRate

\* C17: a connect() of useLiveApi whose agent or user name does not pass the
\* validation has no effect: no transport connection is attempted, no
\* reconnect is scheduled, and a session that is open stays open.
C17_InvalidConnectNoEffect ==
  [][(step'.op = "connect" /\ step'.invalid)
       => /\ ~step'.started
          /\ transports' = transports
          /\ hook'.reconnectTimeout # "pending"]_vars

\* C18 as stated: every automatic reconnect connects with the parameters of
\* the owner's most recent connect() call.
C18_ReconnectUsesLastCall ==
  (step.op = "timer" /\ step.started) => step.params = settings.called

\* C18 amended: every automatic reconnect connects with the parameters of the
\* owner's most recent connect() call that was neither ignored (already
\* connected or connecting) nor rejected by the validation, whatever the
\* settings are by then.
C18_ReconnectUsesCapturedParams ==
  (step.op = "timer" /\ step.started) => step.params = settings.captured

\* a reconnect after the settings were edited
C18_Witness ==
  /\ step.op = "timer" /\ step.started
  /\ step.params = settings.captured /\ step.params # settings.ver

C20_ScheduledAtLaterOfPreviousEndAndNow ==
  [][play'.sched # NoSource
       => /\ play'.sched.start = IF play.last = NoSource \/ play.last.end < now
                                   THEN now ELSE play.last.end
          /\ play'.sched.start >= now
          /\ play.last # NoSource => /\ play'.sched.start >= play.last.end
                                     /\ play'.sched.id > play.last.id]_vars

\* a chunk started behind the previous one, later than the current time
C20_Witness ==
  /\ play.sched # NoSource /\ play.sched.id > 1
  /\ play.sched.start > now

\* C21: one transition, one event (GeminiLiveClient): no handler emits
\* 'connected' or 'disconnected' twice, and the close of a session that
\* disconnect() closed (disconnect() has emitted 'disconnected' for it) emits
\* no second 'disconnected'.
C21_OneEventPerTransition ==
  [][client = "GeminiLiveClient" =>
       /\ Count(step'.emitted, "connected") <= 1
       /\ Count(step'.emitted, "disconnected") <= 1
       /\ \A t \in Live :
            (t.closing /\ step'.op = "onclose" /\ transports' = Remove(transports, t))
              => ~Has(step'.emitted, "disconnected")]_vars

\* C22: on the user's disconnect and on teardown the recorder is stopped
\* before the session is closed: while a session that disconnect() or the
\* effect cleanup closed is closing no recorder captures, and captured audio is
\* written to no session from the user's disconnect or the teardown on.
C22_DevicesStoppedBeforeSessionCloses ==
  client = "useLiveApi" =>
    /\ ((owner = "disconnect" /\ \E t \in Live : t.held /\ t.closing)
          \/ (tray.client # settings.ver /\ tray.session = "closing"))
         => tray.recorder = "null"
    /\ (io.op = "sendRealtimeInput" /\ (owner = "disconnect" \/ tray.client # settings.ver))
         => io.result = "dropped"

\* C23: one lost connection, one reconnect (GeminiLiveClient): at most one
\* reconnect timer is pending, and the close or the rejection of a transport
\* whose error callback has armed a reconnect arms no second one (the attempt
\* counter is incremented once for the failure).
C23_OneReconnectPerFailure ==
  [][client = "GeminiLiveClient" =>
       /\ PendingTimers' <= 1
       /\ \A t \in Live :
            (t.armed /\ step'.op \in {"onclose", "reject"}
               /\ transports' = Remove(transports, t))
              => step'.sched # "armed"]_vars

\* C24: callbacks of a superseded socket leave the new connection alone
\* (GeminiClient): when the socket that closes is not the one the client holds
\* and the client holds another, connected and connecting stay as they are.
C24_StaleCloseLeavesFlags ==
  [][client = "GeminiClient" =>
       \A t \in Live :
         (~t.held /\ (\E u \in Live : u.held) /\ step'.op \in {"onclose", "onerror"}
            /\ transports' \in {Remove(transports, t),
                                Replace(transports, t, [t EXCEPT !.errored = TRUE])})
           => (gc'.connected = gc.connected /\ gc'.connecting = gc.connecting)]_vars

\* C25: the retry chain of useLiveApi makes progress: a reconnect attempt
\* whose connect is rejected schedules the next attempt (or reports that the
\* maximum is reached), and while retries are under way and the hook is not
\* connected, a transport is alive, a reconnect timer is pending or the
\* maximum has been reported.
C25_RetryChainProgress ==
  (client = "useLiveApi" /\ hook.shouldReconnect /\ hook.reconnectAttempts > 0
     /\ ~hook.isConnected)
    => /\ step.op = "reject" => step.sched \in {"armed", "max"}
       /\ NumLive > 0 \/ PendingTimers > 0 \/ hook.connectionError = "max"

\* C26: every connect() of useLiveApi terminates: isConnecting is false after
\* an error was reported for the attempt, and while it is true something is
\* left to end the attempt (a transport alive or a reconnect timer pending).
C26_ConnectTerminates ==
  (client = "useLiveApi" /\ hook.isConnecting)
    => /\ step.op # "reject"
       /\ NumLive > 0 \/ PendingTimers > 0

\* C27: a connect() of the owner that starts a connection starts it with the
\* reconnect attempt counter at 0 (GeminiLiveClient and useLiveApi).
C27_UserConnectStartsAtZero ==
  (Reconnecting /\ step.op = "connect" /\ step.started) => Attempts = 0

\* C28: GeminiLiveClient.disconnect() leaves the voice gate without
\* remote-speaking state: right after disconnect() isGeminiSpeaking is false.
C28_DisconnectClearsRemoteSpeaking ==
  (client = "GeminiLiveClient" /\ step.op = "disconnect" /\ io = NoIO)
    => ~vad.isGeminiSpeaking

\* C29: GeminiLiveClient marks the remote peer as speaking only for messages
\* with model audio: handling a message with neither an audio part nor
\* turnComplete leaves isGeminiSpeaking as it was, and after a message with
\* turnComplete is handled isGeminiSpeaking is false.
C29_SpeakingOnlyForAudio ==
  [][(client = "GeminiLiveClient" /\ io'.op = "onmessage")
       => /\ (io'.audio \in {"none", "unparsed"} /\ ~io'.turnComplete)
               => vad'.isGeminiSpeaking = vad.isGeminiSpeaking
          /\ io'.turnComplete => ~vad'.isGeminiSpeaking]_vars

\* C30: playback recovers from a stop (useLiveApi): a chunk received in a
\* session that is open after the user's connect(), by a streamer that was
\* stopped (it has no context), is scheduled, and isPlaying is not left true
\* with no source started.
C30_PlaybackRecovers ==
  [][(client = "useLiveApi" /\ owner = "connect" /\ hook.isConnected /\ HeldOpen
        /\ streamer.context = "null" /\ play'.next > play.next)
       => /\ play'.dropped = 0
          /\ play'.sched # NoSource \/ streamer.isPlaying
          /\ streamer'.isPlaying => sources' # {}]_vars
====
